---- MODULE Spec2Model ----
(***************************************************************************)
(* Model of scripts/viz_p5.py: load_graph, layered_layout, build_graph,    *)
(* draw_graph, _short_label and main.                                      *)
(*                                                                         *)
(* Python values are represented as follows.                               *)
(*   str    a sequence of code points ("ab" is <<97, 98>>), so that len,   *)
(*          slicing, concatenation and the ordering used by sorted() are   *)
(*          computed and not assumed;                                      *)
(*   None   the sequence <<-1>>, which is no string (TLC compares          *)
(*          sequences with sequences only);                                *)
(*   dict   a function whose DOMAIN is the set of keys present, so that    *)
(*          d.get(k) and d.get(k, default) differ exactly as in Python;    *)
(*   list   a sequence; an insertion-ordered dict of nodes or edges is a   *)
(*          sequence without duplicate keys;                               *)
(*   float  coordinates are kept in tenths (2.2 is 22): every coordinate   *)
(*          the code computes is a half-integer times 2.2.                 *)
(***************************************************************************)
EXTENDS Integers, Sequences, FiniteSets, TLC

VARIABLES
    pc,         \* position of the run inside main (or of a direct call)
    rawNodes,   \* gs.get("nodes", []) of the input document
    rawEdges,   \* gs.get("edges", []) of the input document
    nodes,      \* norm_nodes returned by load_graph
    edges,      \* norm_edges returned by load_graph
    G,          \* the nx.DiGraph built by build_graph
    fig,        \* what draw_graph has drawn (None before it ran)
    outFile,    \* TRUE once plt.savefig wrote the output image
    exitCode,   \* process exit status (-1 while running)
    stderr,     \* lines printed to sys.stderr
    stdout,     \* lines printed to sys.stdout
    layoutIn,   \* argument of a direct call of layered_layout
    layoutOut,  \* its result
    nattr,      \* argument of a direct call of _short_label
    label       \* its result

vars == <<pc, rawNodes, rawEdges, nodes, edges, G, fig, outFile, exitCode,
          stderr, stdout, layoutIn, layoutOut, nattr, label>>

-----------------------------------------------------------------------------
(* Bounds of the model.                                                     *)

MaxNodes == 2
MaxEdges == 2
MaxLoadNodes == 2
MaxStyleEdges == 2
MaxLayoutNodes == 4
MaxLayer == 1
MaxLabelLen == 30

-----------------------------------------------------------------------------
(* Python values.                                                           *)

None == <<-1>>
EmptyStr == <<>>
EmptyDict == [k \in {} |-> None]

Str_a == <<97>>
Str_b == <<98>>
Str_c == <<99>>
Str_ab == <<97, 98>>
Str_B == <<66>>
Str_n == <<110>>
Str_m == <<109>>
Str_uses == <<117, 115, 101, 115>>
Str_unknown == <<117, 110, 107, 110, 111, 119, 110>>
Str_depends_on == <<100, 101, 112, 101, 110, 100, 115, 95, 111, 110>>
Str_invokes == <<105, 110, 118, 111, 107, 101, 115>>
Str_exchanges == <<101, 120, 99, 104, 97, 110, 103, 101, 115>>
Str_persists == <<112, 101, 114, 115, 105, 115, 116, 115>>
Str_configures == <<99, 111, 110, 102, 105, 103, 117, 114, 101, 115>>
Str_observes == <<111, 98, 115, 101, 114, 118, 101, 115>>
Str_contains == <<99, 111, 110, 116, 97, 105, 110, 115>>
Str_solid == <<115, 111, 108, 105, 100>>
Ellipsis == 8230

\* bool(v) for the values the model holds: None and "" are falsy.
Truthy(v) == v # None /\ v # EmptyStr

\* a or b
Or(a, b) == IF Truthy(a) THEN a ELSE b

\* d.get(k)
Get(d, k) == IF k \in DOMAIN d THEN d[k] ELSE None

\* d.get(k, dflt)
GetD(d, k, dflt) == IF k \in DOMAIN d THEN d[k] ELSE dflt

\* a < b on str: code point by code point, a proper prefix is smaller.
RECURSIVE StrLess(_, _)
StrLess(a, b) ==
    IF b = <<>> THEN FALSE
    ELSE IF a = <<>> THEN TRUE
    ELSE IF a[1] # b[1] THEN a[1] < b[1]
    ELSE StrLess(Tail(a), Tail(b))

\* sorted(list of str): stable insertion into the sorted prefix.
RECURSIVE InsertStr(_, _)
InsertStr(s, x) ==
    IF s = <<>> THEN <<x>>
    ELSE IF StrLess(x, s[1]) THEN <<x>> \o s
    ELSE <<s[1]>> \o InsertStr(Tail(s), x)

RECURSIVE SortedStrs(_)
SortedStrs(s) ==
    IF s = <<>> THEN <<>>
    ELSE InsertStr(SortedStrs(SubSeq(s, 1, Len(s) - 1)), s[Len(s)])

\* sorted(set of str)
RECURSIVE SortedStrSet(_)
SortedStrSet(S) ==
    IF S = {} THEN <<>>
    ELSE LET m == CHOOSE x \in S : \A y \in S \ {x} : StrLess(x, y)
         IN  <<m>> \o SortedStrSet(S \ {m})

\* sorted(set of int)
RECURSIVE SortedInts(_)
SortedInts(S) ==
    IF S = {} THEN <<>>
    ELSE LET m == CHOOSE x \in S : \A y \in S : x <= y
         IN  <<m>> \o SortedInts(S \ {m})

Range(s) == {s[i] : i \in 1..Len(s)}

-----------------------------------------------------------------------------
(* load_graph                                                               *)
(* rawNodes and rawEdges are gs.get("nodes", []) and gs.get("edges", []),   *)
(* with gs the document or its "graph_state" member; ids, names, kinds and  *)
(* relation types are strings and layers are integers, each key present or  *)
(* absent.                                                                  *)

\* One entry of norm_nodes. int() is applied to a JSON integer.
NormNode(n) ==
    [id    |-> Or(Get(n, "id"), Get(n, "ID")),
     name  |-> Or(Or(Get(n, "name"), Get(n, "Name")), Get(n, "id")),
     layer |-> GetD(n, "layer", 0),
     kind  |-> GetD(n, "kind", Str_unknown)]

\* One entry of norm_edges.
NormEdge(e) ==
    [id     |-> Get(e, "id"),
     source |-> Get(e, "source"),
     target |-> Get(e, "target"),
     type   |-> GetD(e, "type", Str_depends_on)]

load_graph(rn, re) ==
    <<[i \in 1..Len(rn) |-> NormNode(rn[i])],
      [i \in 1..Len(re) |-> NormEdge(re[i])]>>

-----------------------------------------------------------------------------
(* layered_layout                                                           *)

\* ygap, xgap = 2.2, 2.2 in tenths.
ygap == 22
xgap == 22

\* XCoord with the index dropped: every node of a layer at the same x.
XCoordNoIndex(i, n) == ((0 - (n - 1)) * xgap) \div 2

\* XCoord centred on n / 2 instead of (n - 1) / 2.
XCoordOffCentre(i, n) == ((2 * i - n) * xgap) \div 2

\* x = (i - (n - 1) / 2.0) * xgap, i zero-based; (2i - (n-1)) * xgap is even.
XCoord(i, n) == ((2 * i - (n - 1)) * xgap) \div 2

\* YCoord without the sign: layers growing upward.
YCoordUp(layer) == layer * ygap

\* y = -layer * ygap
YCoord(layer) == (0 - layer) * ygap

\* layers.keys()
LayerKeys(ns) == {ns[i]["layer"] : i \in 1..Len(ns)}

\* layers[layer]: the ids appended for that layer, in the order of the records.
LayerIds(ns, layer) ==
    LET InLayer(n) == n["layer"] = layer
        members == SelectSeq(ns, InLayer)
    IN  [i \in 1..Len(members) |-> members[i]["id"]]

\* SortedIds without the sort: ids in the order of the records.
SortedIdsUnsorted(ids) == ids

\* ids = sorted(layers[layer])
SortedIds(ids) == SortedStrs(ids)

\* for i, nid in enumerate(ids): pos[nid] = (x, y); k is i + 1.
RECURSIVE PlaceIds(_, _, _, _)
PlaceIds(ids, k, layer, pos) ==
    IF k > Len(ids) THEN pos
    ELSE PlaceIds(ids, k + 1, layer,
                  (ids[k] :> <<XCoord(k - 1, Len(ids)), YCoord(layer)>>) @@ pos)

\* for layer in sorted(layers.keys()): ...
RECURSIVE PlaceLayers(_, _, _)
PlaceLayers(ns, layerSeq, pos) ==
    IF layerSeq = <<>> THEN pos
    ELSE PlaceLayers(ns, Tail(layerSeq),
                     PlaceIds(SortedIds(LayerIds(ns, layerSeq[1])), 1,
                              layerSeq[1], pos))

layered_layout(ns) == PlaceLayers(ns, SortedInts(LayerKeys(ns)), EmptyDict)

-----------------------------------------------------------------------------
(* build_graph: an nx.DiGraph is its insertion-ordered nodes (key, attr)    *)
(* and its insertion-ordered edges (u, v, attr).                            *)

EmptyGraph == [nodes |-> <<>>, edges |-> <<>>]

NodeKeys(g) == {g.nodes[i].key : i \in 1..Len(g.nodes)}

\* k in G.nodes
HasNode(g, k) == k \in NodeKeys(g)

\* G.add_node(k, **attr): a known key keeps its place and updates its attributes.
add_node(g, k, attr) ==
    IF HasNode(g, k)
    THEN [g EXCEPT !.nodes = [i \in 1..Len(g.nodes) |->
              IF g.nodes[i].key = k
              THEN [key |-> k, attr |-> attr @@ g.nodes[i].attr]
              ELSE g.nodes[i]]]
    ELSE [g EXCEPT !.nodes = Append(g.nodes, [key |-> k, attr |-> attr])]

\* G.add_edge(u, v, **attr): missing endpoints become nodes without attributes;
\* a known (u, v) keeps its place and updates its attributes.
add_edge(g, u, v, attr) ==
    LET g1 == IF HasNode(g, u) THEN g ELSE add_node(g, u, EmptyDict)
        g2 == IF HasNode(g1, v) THEN g1 ELSE add_node(g1, v, EmptyDict)
    IN  IF \E i \in 1..Len(g2.edges) : g2.edges[i].u = u /\ g2.edges[i].v = v
        THEN [g2 EXCEPT !.edges = [i \in 1..Len(g2.edges) |->
                  IF g2.edges[i].u = u /\ g2.edges[i].v = v
                  THEN [u |-> u, v |-> v, attr |-> attr @@ g2.edges[i].attr]
                  ELSE g2.edges[i]]]
        ELSE [g2 EXCEPT !.edges = Append(g2.edges, [u |-> u, v |-> v, attr |-> attr])]

\* G.add_node(None) raises ValueError("None cannot be a node").
NodesRaise(ns) == \E i \in 1..Len(ns) : ns[i]["id"] = None

RECURSIVE AddNodes(_, _)
AddNodes(g, ns) ==
    IF ns = <<>> THEN g
    ELSE AddNodes(add_node(g, ns[1]["id"], ns[1]), Tail(ns))

\* EdgeKept testing the source alone.
EdgeKeptSourceOnly(g, e) == HasNode(g, e["source"])

\* if e["source"] in G.nodes and e["target"] in G.nodes
EdgeKept(g, e) == HasNode(g, e["source"]) /\ HasNode(g, e["target"])

\* EdgeAttrs of G.add_edge(source, target) called without **e.
EdgeAttrsDropped(e) == EmptyDict

\* the attributes **e stored on the edge
EdgeAttrs(e) == e

RECURSIVE AddEdges(_, _)
AddEdges(g, es) ==
    IF es = <<>> THEN g
    ELSE AddEdges(IF EdgeKept(g, es[1])
                  THEN add_edge(g, es[1]["source"], es[1]["target"], EdgeAttrs(es[1]))
                  ELSE g,
                  Tail(es))

build_graph(ns, es) == AddEdges(AddNodes(EmptyGraph, ns), es)

\* G.edges(data=True): by source node in node order, then in insertion order.
RECURSIVE EdgesFrom(_, _)
EdgesFrom(g, nodeSeq) ==
    IF nodeSeq = <<>> THEN <<>>
    ELSE LET From(e) == e.u = nodeSeq[1].key
         IN  SelectSeq(g.edges, From) \o EdgesFrom(g, Tail(nodeSeq))

EdgesData(g) == EdgesFrom(g, g.nodes)

-----------------------------------------------------------------------------
(* _short_label                                                             *)

LabelMax == 26
LabelKeep == 23

\* _short_label truncating from length LabelMax on (>= for >).
_short_label_ge(na) ==
    LET lab == Or(Or(Get(na, "name"), Get(na, "id")), EmptyStr)
    IN  IF Len(lab) >= LabelMax
        THEN SubSeq(lab, 1, LabelKeep) \o <<Ellipsis>>
        ELSE lab

_short_label(na) ==
    LET lab == Or(Or(Get(na, "name"), Get(na, "id")), EmptyStr)
    IN  IF Len(lab) > LabelMax
        THEN SubSeq(lab, 1, LabelKeep) \o <<Ellipsis>>
        ELSE lab

-----------------------------------------------------------------------------
(* draw_graph                                                               *)

\* get_cmap("tab20").N
cmapN == 20

\* style_map with the pattern of "exchanges" pasted onto "persists".
style_map_pasted ==
    (Str_depends_on :> Str_solid) @@
    (Str_invokes :> Str_solid) @@
    (Str_exchanges :> <<0, <<4, 2>>>>) @@
    (Str_persists :> <<0, <<4, 2>>>>) @@
    (Str_configures :> <<0, <<6, 1, 1, 1>>>>) @@
    (Str_observes :> <<0, <<1, 1>>>>) @@
    (Str_contains :> Str_solid)

style_map ==
    (Str_depends_on :> Str_solid) @@
    (Str_invokes :> Str_solid) @@
    (Str_exchanges :> <<0, <<4, 2>>>>) @@
    (Str_persists :> <<0, <<2, 2>>>>) @@
    (Str_configures :> <<0, <<6, 1, 1, 1>>>>) @@
    (Str_observes :> <<0, <<1, 1>>>>) @@
    (Str_contains :> Str_solid)

\* style_map.get(et, "solid")
StyleOf(et) == GetD(style_map, et, Str_solid)

\* node_layers = {n: G.nodes[n].get("layer", 0) for n in G.nodes}
NodeLayers(g) ==
    [k \in NodeKeys(g) |->
        LET i == CHOOSE j \in 1..Len(g.nodes) : g.nodes[j].key = k
        IN  GetD(g.nodes[i].attr, "layer", 0)]

\* unique_layers = sorted(set(node_layers.values()))
UniqueLayers(g) == SortedInts({NodeLayers(g)[k] : k \in NodeKeys(g)})

\* color_map = {lay: cmap(i % cmap.N) for i, lay in enumerate(unique_layers)}:
\* a colour is its index in the palette.
ColorMap(g) ==
    LET ul == UniqueLayers(g)
    IN  [lay \in Range(ul) |->
            ((CHOOSE i \in 1..Len(ul) : ul[i] = lay) - 1) % cmapN]

\* one nx.draw_networkx_nodes call per layer
NodeDraws(g) ==
    LET ul == UniqueLayers(g)
    IN  [i \in 1..Len(ul) |->
            LET InLayer(n) == GetD(n.attr, "layer", 0) = ul[i]
                members == SelectSeq(g.nodes, InLayer)
            IN  [nodelist |-> [j \in 1..Len(members) |-> members[j].key],
                 color    |-> ColorMap(g)[ul[i]]]]

\* edge_types = sorted(set(d.get("type", "depends_on") for ...))
EdgeTypes(g) ==
    LET ed == EdgesData(g)
    IN  SortedStrSet({GetD(ed[i].attr, "type", Str_depends_on) : i \in 1..Len(ed)})

\* es = [(u, v) for u, v, d in G.edges(data=True) if d.get("type") == et]
EdgesOfType(g, et) ==
    LET OfType(e) == Get(e.attr, "type") = et
        sel == SelectSeq(EdgesData(g), OfType)
    IN  [i \in 1..Len(sel) |-> <<sel[i].u, sel[i].v>>]

\* one nx.draw_networkx_edges call per type with a non-empty edge list
RECURSIVE EdgeDraws(_, _)
EdgeDraws(g, types) ==
    IF types = <<>> THEN <<>>
    ELSE LET es == EdgesOfType(g, types[1])
         IN  (IF es = <<>> THEN <<>>
              ELSE <<[type |-> types[1], edgelist |-> es, style |-> StyleOf(types[1])]>>)
             \o EdgeDraws(g, Tail(types))

\* labels = {n: _short_label(G.nodes[n]) for n in G.nodes}
Labels(g) ==
    [k \in NodeKeys(g) |->
        LET i == CHOOSE j \in 1..Len(g.nodes) : g.nodes[j].key = k
        IN  _short_label(g.nodes[i].attr)]

\* layer_patches = [Patch(color=color_map[lay], label=f"Layer {lay}") ...]
Legend(g) ==
    LET ul == UniqueLayers(g)
    IN  [i \in 1..Len(ul) |-> [color |-> ColorMap(g)[ul[i]], layer |-> ul[i]]]

draw_graph(g) ==
    [pos       |-> layered_layout([i \in 1..Len(g.nodes) |-> g.nodes[i].attr]),
     nodeDraws |-> NodeDraws(g),
     edgeDraws |-> EdgeDraws(g, EdgeTypes(g)),
     labels    |-> Labels(g),
     legend    |-> Legend(g)]

-----------------------------------------------------------------------------
(* main                                                                     *)

NoFig == EmptyDict

\* EmptyInput testing the nodes alone.
EmptyInputNodesOnly(ns, es) == ns = <<>>

\* if not nodes or not edges
EmptyInput(ns, es) == ns = <<>> \/ es = <<>>

\* nodes, edges = load_graph(Path(args.inp))
LoadGraph ==
    /\ pc = "load"
    /\ nodes' = load_graph(rawNodes, rawEdges)[1]
    /\ edges' = load_graph(rawNodes, rawEdges)[2]
    /\ pc' = "check"
    /\ UNCHANGED <<rawNodes, rawEdges, G, fig, outFile, exitCode, stderr, stdout,
                   layoutIn, layoutOut, nattr, label>>

\* the empty-input test: print to stderr and sys.exit(2), or go on
CheckInput ==
    /\ pc = "check"
    /\ IF EmptyInput(nodes, edges)
       THEN /\ stderr' = Append(stderr, "No nodes or edges found in input JSON.")
            /\ exitCode' = 2
            /\ pc' = "exit"
       ELSE /\ pc' = "build"
            /\ UNCHANGED <<stderr, exitCode>>
    /\ UNCHANGED <<rawNodes, rawEdges, nodes, edges, G, fig, outFile, stdout,
                   layoutIn, layoutOut, nattr, label>>

\* G = build_graph(nodes, edges); an uncaught exception ends the run with status 1
BuildGraph ==
    /\ pc = "build"
    /\ IF NodesRaise(nodes)
       THEN /\ stderr' = Append(stderr, "ValueError: None cannot be a node")
            /\ exitCode' = 1
            /\ pc' = "exit"
            /\ UNCHANGED G
       ELSE /\ G' = build_graph(nodes, edges)
            /\ pc' = "draw"
            /\ UNCHANGED <<stderr, exitCode>>
    /\ UNCHANGED <<rawNodes, rawEdges, nodes, edges, fig, outFile, stdout,
                   layoutIn, layoutOut, nattr, label>>

\* draw_graph(G, ...); print(f"Saved: ... (nodes={len(nodes)}, edges={len(edges)})")
DrawGraph ==
    /\ pc = "draw"
    /\ fig' = draw_graph(G)
    /\ outFile' = TRUE
    /\ stdout' = Append(stdout, [saved |-> TRUE, nodes |-> Len(nodes), edges |-> Len(edges)])
    /\ exitCode' = 0
    /\ pc' = "done"
    /\ UNCHANGED <<rawNodes, rawEdges, nodes, edges, G, stderr,
                   layoutIn, layoutOut, nattr, label>>

\* a direct call of layered_layout
LayoutCall ==
    /\ pc = "layout"
    /\ layoutOut' = layered_layout(layoutIn)
    /\ pc' = "layout_done"
    /\ UNCHANGED <<rawNodes, rawEdges, nodes, edges, G, fig, outFile, exitCode,
                   stderr, stdout, layoutIn, nattr, label>>

\* a direct call of _short_label
LabelCall ==
    /\ pc = "label"
    /\ label' = _short_label(nattr)
    /\ pc' = "label_done"
    /\ UNCHANGED <<rawNodes, rawEdges, nodes, edges, G, fig, outFile, exitCode,
                   stderr, stdout, layoutIn, layoutOut, nattr>>

-----------------------------------------------------------------------------
(* Inputs.                                                                  *)

\* a dict with key k or without it
OptField(k, Vals) == {EmptyDict} \cup {k :> v : v \in Vals}

SeqsUpTo(S, n) == UNION {[1..m -> S] : m \in 0..n}

Idle ==
    /\ nodes = <<>> /\ edges = <<>> /\ G = EmptyGraph /\ fig = NoFig
    /\ outFile = FALSE /\ exitCode = -1 /\ stderr = <<>> /\ stdout = <<>>
    /\ layoutOut = EmptyDict /\ label = None

RunInit(NodeRecs, EdgeRecs, maxN, maxE) ==
    /\ pc = "load"
    /\ rawNodes \in SeqsUpTo(NodeRecs, maxN)
    /\ rawEdges \in SeqsUpTo(EdgeRecs, maxE)
    /\ layoutIn = <<>> /\ nattr = EmptyDict
    /\ Idle

\* Documents for the run as a whole: node records with or without an id,
\* edges with present, missing and absent endpoints, typed and untyped.
NodeRecs ==
    {a @@ b : a \in OptField("id", {Str_a, Str_b}),
              b \in OptField("layer", {1})}

EdgeRecs ==
    {a @@ b @@ c : a \in OptField("source", {Str_a, Str_b}),
                   b \in {"target" :> v : v \in {Str_a, Str_c}},
                   c \in OptField("type", {Str_invokes})}

Init == RunInit(NodeRecs, EdgeRecs, MaxNodes, MaxEdges)

\* Documents for load_graph: every spelling of the id and name keys.
LoadNodeRecs ==
    {a @@ b @@ c @@ d @@ e :
        a \in OptField("id", {EmptyStr, Str_a}),
        b \in OptField("ID", {Str_b}),
        c \in OptField("name", {EmptyStr, Str_n}),
        d \in OptField("Name", {Str_m}),
        e \in OptField("kind", {Str_c})}

LoadEdgeRecs == {("source" :> Str_a) @@ ("target" :> Str_b)}

InitLoad == RunInit(LoadNodeRecs, LoadEdgeRecs, MaxLoadNodes, 1)

\* Documents for the edge styles: two nodes, edges of every known type, of an
\* unknown type and without a type.
KnownTypes ==
    {Str_depends_on, Str_invokes, Str_exchanges, Str_persists, Str_configures,
     Str_observes, Str_contains}

StyleNodeRecs == {"id" :> Str_a, "id" :> Str_b}

StyleEdgeRecs ==
    {a @@ b @@ c : a \in {"source" :> Str_a},
                   b \in {"target" :> v : v \in {Str_a, Str_b, Str_c}},
                   c \in OptField("type", KnownTypes \cup {Str_uses})}

InitStyle ==
    /\ RunInit(StyleNodeRecs, StyleEdgeRecs, 2, MaxStyleEdges)
    /\ Len(rawNodes) \in {0, 2}
    /\ Len(rawNodes) = 2 => rawNodes[1] # rawNodes[2]

\* Node lists with unique ids for layered_layout.
LayoutIds == {Str_a, Str_b, Str_ab, Str_B}

LayoutLayers == (0 - MaxLayer)..MaxLayer

Min(a, b) == IF a < b THEN a ELSE b

LayoutInputs ==
    UNION {
        {[i \in 1..m |-> [id |-> ids[i], name |-> ids[i], layer |-> ls[i],
                          kind |-> Str_unknown]] :
            ids \in {s \in [1..m -> LayoutIds] :
                        \A i, j \in 1..m : i # j => s[i] # s[j]},
            ls \in [1..m -> LayoutLayers]} :
        m \in 0..Min(MaxLayoutNodes, Cardinality(LayoutIds))}

InitLayout ==
    /\ pc = "layout"
    /\ layoutIn \in LayoutInputs
    /\ rawNodes = <<>> /\ rawEdges = <<>> /\ nattr = EmptyDict
    /\ Idle

\* Attribute dicts for _short_label: strings of every length up to MaxLabelLen.
StrOf(len, seed) == [i \in 1..len |-> 97 + ((i + seed) % 26)]

LabelStrs == {StrOf(len, seed) : len \in 0..MaxLabelLen, seed \in {0, 7}}

LabelInputs ==
    {a @@ b : a \in OptField("name", LabelStrs \cup {None}),
              b \in OptField("id", LabelStrs \cup {None})}

InitLabel ==
    /\ pc = "label"
    /\ nattr \in LabelInputs
    /\ rawNodes = <<>> /\ rawEdges = <<>> /\ layoutIn = <<>>
    /\ Idle

-----------------------------------------------------------------------------
(* Specifications.                                                          *)

Next == LoadGraph \/ CheckInput \/ BuildGraph \/ DrawGraph

NextLayout == LayoutCall

NextLabel == LabelCall

Spec == Init /\ [][Next]_vars

SpecLoad == InitLoad /\ [][Next]_vars

SpecStyle == InitStyle /\ [][Next]_vars

SpecLayout == InitLayout /\ [][NextLayout]_vars

SpecLabel == InitLabel /\ [][NextLabel]_vars

-----------------------------------------------------------------------------
(* Properties of build_graph and main.                                      *)

InputIds == {nodes[i]["id"] : i \in 1..Len(nodes)}

Built == pc \in {"draw", "done"}

Dangling(e) == e["source"] \notin InputIds \/ e["target"] \notin InputIds

\* C1: the graph returned by build_graph has exactly the input nodes as nodes,
\* every edge of it joins two of them, no dangling input edge is in it, it has
\* no more edges than the input, and build_graph raises for no edge: only a
\* node without an id makes it raise.
C1_EdgesJoinNodes ==
    /\ Built =>
        /\ NodeKeys(G) = InputIds
        /\ \A i \in 1..Len(G.edges) :
              G.edges[i].u \in NodeKeys(G) /\ G.edges[i].v \in NodeKeys(G)
        /\ \A j \in 1..Len(edges) :
              Dangling(edges[j]) =>
                  ~ \E i \in 1..Len(G.edges) :
                        /\ G.edges[i].u = edges[j]["source"]
                        /\ G.edges[i].v = edges[j]["target"]
        /\ Len(G.edges) <= Len(edges)
    /\ (pc = "exit" /\ exitCode = 1) => None \in InputIds

\* A graph was built from an input with a dangling edge and a kept edge.
C1_Witness ==
    /\ Built
    /\ G.edges # <<>>
    /\ Len(G.edges) < Len(edges)
    /\ \E j \in 1..Len(edges) : Dangling(edges[j])

-----------------------------------------------------------------------------
(* Properties of load_graph.                                                *)

NoNameKey(n) == "name" \notin DOMAIN n /\ "Name" \notin DOMAIN n

\* C5: a node record that carries no name and has a resolved identifier gets
\* that identifier as its name, under either spelling of the id key.
C5_NameDefaultsToId ==
    pc # "load" =>
        \A i \in 1..Len(rawNodes) :
            (NoNameKey(rawNodes[i]) /\ nodes[i]["id"] # None) =>
                nodes[i]["name"] = nodes[i]["id"]

-----------------------------------------------------------------------------
(* Properties of draw_graph.                                                *)

DashedTypes == {Str_exchanges, Str_persists, Str_configures, Str_observes}

\* C6 as stated: any two edge groups of different known relation types are
\* drawn with different line patterns.
C6_KnownTypesDiffer ==
    pc = "done" =>
        \A i, j \in 1..Len(fig.edgeDraws) :
            (/\ i # j
             /\ fig.edgeDraws[i].type \in KnownTypes
             /\ fig.edgeDraws[j].type \in KnownTypes) =>
                fig.edgeDraws[i].style # fig.edgeDraws[j].style

\* C6 as amended: exchanges, persists, configures and observes are drawn with
\* pairwise different patterns, none of them solid; every other type, known
\* (depends_on, invokes, contains) or not, is drawn solid.
C6_DashedTypesDiffer ==
    pc = "done" =>
        \A i \in 1..Len(fig.edgeDraws) :
            IF fig.edgeDraws[i].type \in DashedTypes
            THEN /\ fig.edgeDraws[i].style # Str_solid
                 /\ \A j \in 1..Len(fig.edgeDraws) :
                       (i # j /\ fig.edgeDraws[j].type \in DashedTypes) =>
                           fig.edgeDraws[i].style # fig.edgeDraws[j].style
            ELSE fig.edgeDraws[i].style = Str_solid

\* Edges of two different dashed types were drawn.
C6_Witness ==
    /\ pc = "done"
    /\ \E i, j \in 1..Len(fig.edgeDraws) :
          /\ i # j
          /\ fig.edgeDraws[i].type \in DashedTypes
          /\ fig.edgeDraws[j].type \in DashedTypes

\* the places (call, index) at which the pair (u, v) is drawn
DrawnAt(u, v) ==
    {h \in (1..Len(fig.edgeDraws)) \X (1..Len(G.edges)) :
        /\ h[2] <= Len(fig.edgeDraws[h[1]].edgelist)
        /\ fig.edgeDraws[h[1]].edgelist[h[2]] = <<u, v>>}

\* C10: every edge of the graph is drawn exactly once, in the call of its own
\* type and with the pattern of that type, and nothing else is drawn.
C10_EdgesDrawnOnce ==
    pc = "done" =>
        /\ \A i \in 1..Len(G.edges) :
              /\ Cardinality(DrawnAt(G.edges[i].u, G.edges[i].v)) = 1
              /\ \A h \in DrawnAt(G.edges[i].u, G.edges[i].v) :
                    /\ fig.edgeDraws[h[1]].type = G.edges[i].attr["type"]
                    /\ fig.edgeDraws[h[1]].style = StyleOf(G.edges[i].attr["type"])
        /\ \A d \in 1..Len(fig.edgeDraws) :
              /\ Len(fig.edgeDraws[d].edgelist) <= Len(G.edges)
              /\ \A k \in 1..Len(fig.edgeDraws[d].edgelist) :
                    \E i \in 1..Len(G.edges) :
                        fig.edgeDraws[d].edgelist[k] = <<G.edges[i].u, G.edges[i].v>>

\* Two edges were drawn in two calls, one of them loaded without a type.
C10_Witness ==
    /\ pc = "done"
    /\ Len(G.edges) = 2
    /\ Len(fig.edgeDraws) = 2
    /\ \E j \in 1..Len(rawEdges) :
          /\ "type" \notin DOMAIN rawEdges[j]
          /\ ~Dangling(edges[j])

-----------------------------------------------------------------------------
(* Properties of layered_layout.                                            *)

LaidOut == pc = "layout_done"

InIds == {layoutIn[i]["id"] : i \in 1..Len(layoutIn)}

LayerOf(nid) ==
    layoutIn[CHOOSE i \in 1..Len(layoutIn) : layoutIn[i]["id"] = nid]["layer"]

\* C3: the layout maps exactly the node ids, and two different nodes never
\* get the same (x, y): different layers differ in y, one layer differs in x.
C3_LayoutTotalInjective ==
    LaidOut =>
        /\ DOMAIN layoutOut = InIds
        /\ \A a, b \in InIds :
              a # b =>
                  /\ layoutOut[a] # layoutOut[b]
                  /\ LayerOf(a) # LayerOf(b) => layoutOut[a][2] # layoutOut[b][2]
                  /\ LayerOf(a) = LayerOf(b) => layoutOut[a][1] # layoutOut[b][1]

\* Nodes sharing a layer and nodes of different layers were laid out.
C3_Witness ==
    /\ LaidOut
    /\ \E a, b, c \in InIds :
          a # b /\ LayerOf(a) = LayerOf(b) /\ LayerOf(c) # LayerOf(a)

Perms(n) == {p \in [1..n -> 1..n] : \A i, j \in 1..n : i # j => p[i] # p[j]}

\* C4: every permutation of the node list gets the same layout.
C4_LayoutOrderFree ==
    LaidOut =>
        \A p \in Perms(Len(layoutIn)) :
            layered_layout([i \in 1..Len(layoutIn) |-> layoutIn[p[i]]]) = layoutOut

\* A layer whose records came in another order than the sorted one was laid out.
C4_Witness ==
    /\ LaidOut
    /\ \E i, j \in 1..Len(layoutIn) :
          /\ i < j
          /\ layoutIn[i]["layer"] = layoutIn[j]["layer"]
          /\ StrLess(layoutIn[j]["id"], layoutIn[i]["id"])

LayerMembers(layer) == {nid \in InIds : LayerOf(nid) = layer}

\* position of nid in the sorted order of its layer, zero-based
RankOf(nid) ==
    Cardinality({m \in LayerMembers(LayerOf(nid)) : StrLess(m, nid)})

\* C8: in a layer of size n the node at sorted position i has
\* x = (i - (n-1)/2) * X_GAP (twice x is (2i - (n-1)) * X_GAP); positions i and
\* n-1-i have opposite x; the middle node of an odd layer is at x = 0.
C8_LayerCentred ==
    LaidOut =>
        \A a \in InIds :
            LET n == Cardinality(LayerMembers(LayerOf(a)))
            IN  /\ 2 * layoutOut[a][1] = (2 * RankOf(a) - (n - 1)) * 22
                /\ \A b \in LayerMembers(LayerOf(a)) :
                      RankOf(a) + RankOf(b) = n - 1 =>
                          layoutOut[a][1] = 0 - layoutOut[b][1]
                /\ 2 * RankOf(a) = n - 1 => layoutOut[a][1] = 0

\* A layer of three nodes and a layer of one node were laid out.
C8_Witness ==
    /\ LaidOut
    /\ \E a, b \in InIds :
          /\ Cardinality(LayerMembers(LayerOf(a))) = 3
          /\ Cardinality(LayerMembers(LayerOf(b))) = 1

\* C9: a node of a lower layer has a strictly greater y than a node of a
\* higher layer, and every node has y = -layer * Y_GAP.
C9_LayersDescend ==
    LaidOut =>
        \A a \in InIds :
            /\ layoutOut[a][2] = (0 - LayerOf(a)) * 22
            /\ \A b \in InIds :
                  LayerOf(a) < LayerOf(b) => layoutOut[a][2] > layoutOut[b][2]

\* Nodes of two layers, two of them in one layer, were laid out.
C9_Witness ==
    /\ LaidOut
    /\ \E a, b, c \in InIds :
          a # c /\ LayerOf(a) < LayerOf(b) /\ LayerOf(a) = LayerOf(c)

-----------------------------------------------------------------------------
(* Properties of _short_label.                                              *)

\* the name if non-empty, else the id if non-empty, else ""
BaseLabel ==
    IF Truthy(Get(nattr, "name")) THEN nattr["name"]
    ELSE IF Truthy(Get(nattr, "id")) THEN nattr["id"]
    ELSE EmptyStr

\* C7: the label is the name, else the id, else ""; up to 26 characters it is
\* returned unchanged, beyond that as its first 23 characters and one ellipsis.
C7_ShortLabel ==
    pc = "label_done" =>
        /\ Len(BaseLabel) <= 26 => label = BaseLabel
        /\ Len(BaseLabel) > 26 =>
              /\ Len(label) = 24
              /\ SubSeq(label, 1, 23) = SubSeq(BaseLabel, 1, 23)
              /\ label[24] = 8230

\* A name of 30 characters was shortened to 24.
C7_Witness ==
    /\ pc = "label_done"
    /\ Truthy(Get(nattr, "name"))
    /\ Len(nattr["name"]) = 30
    /\ Len(label) = 24

====
